---- MODULE Spec2Model ----
(***************************************************************************)
(* Model of the Lanczos resize engine of video-processor                   *)
(* (internal/resize/resize.go, internal/filters/filter.go).                *)
(*                                                                         *)
(* Real numbers.  The code computes scale, support, center and the kernel  *)
(* argument in float64.  For integer srcSize, dstSize, d and s all of them *)
(* are rationals over the denominator 2*dstSize (or 2*srcSize for the      *)
(* stretched kernel argument), so the model keeps their numerators as      *)
(* integers and truncates exactly where the code converts to int.  Kernel  *)
(* values, weights and channel sums are fixed-point numbers with Q units   *)
(* per 1.0; a weight also carries the exact answer of the code's test      *)
(* `weight != 0`, which for a float64 is true for every argument strictly  *)
(* inside the kernel's radius (math.Sin(math.Pi*k) is about 1e-16, not 0). *)
(*                                                                         *)
(* float64 rounding is not modelled.  It shows only at a source index      *)
(* whose exact kernel argument equals the radius (exact weight 0): the     *)
(* code's rounded argument can fall just below the radius, which makes the *)
(* weight about 1e-17 and non-zero, and the code's range can hold that     *)
(* index or its neighbour where the exact range does not.  For sizes up    *)
(* to 15 this touches 20 pairs of sizes with radius 1 (5->3 the smallest), *)
(* 12 with radius 2 and 6 with radius 3, and changes no weight by more     *)
(* than 1e-16; the nested engine of the code also panics, where the exact  *)
(* arithmetic does not, for 9->5, 10->6, 13->5 and 15->9 with radius 1 and *)
(* for 10->6 and 14->6 with radius 2.  Every panic of the model is a panic *)
(* of the code.                                                            *)
(*                                                                         *)
(* Rasters.  A raster is an *image.NRGBA whose bounds start at (0, 0), as  *)
(* the rasters Resize allocates and the sources of the tests are: 8-bit    *)
(* non-premultiplied pixels, read as 16-bit premultiplied colours by       *)
(* At(x, y).RGBA() and written through color.NRGBAModel by Set.            *)
(*                                                                         *)
(* Specifications.  Spec: calls of Resize on small rasters of three pixel  *)
(* patterns.  SpecLine: calls of Resize on rasters of one or two rows and  *)
(* up to MaxLen columns.  SpecW: calls of calculateWeights on its own,     *)
(* one destination row per step, with Lanczos filters of radius 1, 2 and   *)
(* 3.  SpecF: the same calls of the flat-array engine's calculateWeights   *)
(* (filter.go, from line 260).  SpecK: calls of Lanczos.Kernel on          *)
(* multiples of 1/kDen between -(Radius + 1) and Radius + 1.               *)
(***************************************************************************)
EXTENDS Integers, Naturals, Sequences, FiniteSets, TLC

(* ---------------------------- bounds ---------------------------------- *)

MaxLen == 14      \* largest srcSize / dstSize given to calculateWeights
MaxW == 4         \* largest raster width / requested width
MaxH == 3         \* largest raster height / requested height
MaxDen == 6       \* Kernel is called on multiples of 1/kDen, kDen <= MaxDen

(* ------------------------- fixed point -------------------------------- *)

Q == 10000        \* fixed-point units per 1.0
PiQ == 31416      \* math.Pi in fixed point

Abs(x) == IF x < 0 THEN -x ELSE x

\* Go's int(f) for a float64 f = a/b (b > 0): truncation toward zero.
TruncDiv(a, b) == IF a >= 0 THEN a \div b ELSE -((-a) \div b)

\* float64 division a/b (b > 0), rounded to the nearest fixed-point unit.
RoundDiv(a, b) == IF a >= 0 THEN (2 * a + b) \div (2 * b)
                            ELSE -((2 * (-a) + b) \div (2 * b))

Zero == [nz |-> FALSE, fp |-> 0]

(* ----------------------------- kernel --------------------------------- *)

\* The degree-7 Taylor polynomial of the sine at y (y2 = y*y), in Horner
\* form, all in fixed point.
SinPoly(y, y2) ==
    LET t1 == Q - (y2 \div 42)
        t2 == Q - (((y2 * t1) \div Q) \div 20)
        t3 == Q - (((y2 * t2) \div Q) \div 6)
    IN (y * t3) \div Q

SinTaylor(y) == SinPoly(y, (y * y) \div Q)

\* sin(Pi * m/den) for 0 <= m <= den: the argument is folded into [0, Pi/2].
SinHalfTurn(m, den) ==
    SinTaylor((PiQ * (IF 2 * m > den THEN den - m ELSE m)) \div den)

\* math.Sin(math.Pi * n/den) for n >= 0, den > 0, in fixed point.
SinPi(n, den) ==
    IF n % (2 * den) >= den
    THEN -SinHalfTurn((n % (2 * den)) - den, den)
    ELSE SinHalfTurn(n % (2 * den), den)

\* filters.sinc(n/den), n >= 0.
sinc(n, den) ==
    IF n = 0 THEN Q
    ELSE RoundDiv(SinPi(n, den) * Q, (PiQ * n) \div den)

\* Mutant: "value = math.Abs(value)" is left out.
KernelNoAbs(R, n, den) ==
    IF n < R * den
    THEN [nz |-> TRUE, fp |-> (sinc(n, den) * sinc(n, R * den)) \div Q]
    ELSE Zero

\* (*Lanczos).Kernel(n/den) for a filter of radius R.
Kernel(R, n, den) ==
    LET value == Abs(n)
    IN IF value < R * den
       THEN [nz |-> TRUE,
             fp |-> (sinc(value, den) * sinc(value, R * den)) \div Q]
       ELSE Zero

(* ------------------- calculateWeights (nested engine) ------------------ *)

\* scale > 1.0, with scale = float64(srcSize) / float64(dstSize).
Downsampling(srcSize, dstSize) == srcSize > dstSize

\* Reals below are numerators over the denominator Den(dstSize).
Den(dstSize) == 2 * dstSize

\* support = filterRadius, multiplied by scale when scale > 1.0.
SupportN(srcSize, dstSize, R) ==
    IF Downsampling(srcSize, dstSize) THEN 2 * R * srcSize ELSE 2 * R * dstSize

\* weightsPerPixel := int(2*support) + 1
WeightsPerPixel(srcSize, dstSize, R) ==
    TruncDiv(2 * SupportN(srcSize, dstSize, R), Den(dstSize)) + 1

\* center := (float64(dstIdx)+0.5)*scale - 0.5
CenterN(srcSize, dstSize, dstIdx) == (2 * dstIdx + 1) * srcSize - dstSize

\* Mutant: left is not raised to 0.
LeftUnclamped(srcSize, dstSize, R, dstIdx) ==
    TruncDiv(CenterN(srcSize, dstSize, dstIdx) - SupportN(srcSize, dstSize, R),
             Den(dstSize))

\* left := int(center - support), raised to 0 when negative.
Left(srcSize, dstSize, R, dstIdx) ==
    LET l == TruncDiv(CenterN(srcSize, dstSize, dstIdx)
                        - SupportN(srcSize, dstSize, R), Den(dstSize))
    IN IF l < 0 THEN 0 ELSE l

\* Mutant: right is not lowered to srcSize-1.
RightUnclamped(srcSize, dstSize, R, dstIdx) ==
    TruncDiv(CenterN(srcSize, dstSize, dstIdx) + SupportN(srcSize, dstSize, R),
             Den(dstSize))

\* right := int(center + support), lowered to srcSize-1 when beyond it.
Right(srcSize, dstSize, R, dstIdx) ==
    LET r == TruncDiv(CenterN(srcSize, dstSize, dstIdx)
                        + SupportN(srcSize, dstSize, R), Den(dstSize))
    IN IF r >= srcSize THEN srcSize - 1 ELSE r

\* Mutant: when downsampling, the distance is multiplied by scale.
RawWeightStretched(srcSize, dstSize, R, dstIdx, srcIdx) ==
    IF Downsampling(srcSize, dstSize)
    THEN Kernel(R, (Den(dstSize) * srcIdx - CenterN(srcSize, dstSize, dstIdx))
                     * srcSize, Den(dstSize) * dstSize)
    ELSE Kernel(R, Den(dstSize) * srcIdx - CenterN(srcSize, dstSize, dstIdx),
                Den(dstSize))

\* The weight the filter gives source index srcIdx for destination dstIdx:
\* filter.Kernel(distance / scale) when scale > 1.0, else
\* filter.Kernel(distance), with distance = float64(srcIdx) - center.
RawWeight(srcSize, dstSize, R, dstIdx, srcIdx) ==
    Kernel(R, Den(dstSize) * srcIdx - CenterN(srcSize, dstSize, dstIdx),
           IF Downsampling(srcSize, dstSize) THEN 2 * srcSize ELSE Den(dstSize))

\* A float64 sum accumulated term by term.
RECURSIVE SumSeq(_)
SumSeq(q) == IF q = <<>> THEN 0 ELSE Head(q) + SumSeq(Tail(q))

\* "weights[dstIdx][i] /= weightSum" for every slot i of the row.
Divide(row, weightSum) ==
    [i \in 1..Len(row) |->
        [nz |-> row[i].nz, fp |-> RoundDiv(row[i].fp * Q, weightSum)]]

\* Mutant: the normalization step is left out.
NormalizeNever(row, weightSum) == row

\* "if weightSum > 0 { ... }": the row after the normalization step.
Normalize(row, weightSum) ==
    IF weightSum > 0 THEN Divide(row, weightSum) ELSE row

\* The body of the dstIdx loop for the range [left, right], ws[s] being the
\* filter's weight for source index s.  The row has wpp slots; the srcIdx
\* loop stores a non-zero weight at slot srcIdx - left and panics (index out
\* of range) when that slot is not below wpp.  Slots are numbered from 1
\* here, from 0 in the code.  written: the slots the loop stores to.
FillRow(wpp, left, right, ws) ==
    IF \E s \in left..right : ws[s].nz /\ s - left >= wpp
    THEN [panic |-> TRUE, left |-> left, right |-> right, row |-> <<>>,
          written |-> {s - left : s \in {t \in left..right : ws[t].nz}}]
    ELSE [panic |-> FALSE, left |-> left, right |-> right,
          row |-> Normalize([i \in 1..wpp |->
                                IF left + i - 1 <= right /\ ws[left + i - 1].nz
                                THEN ws[left + i - 1] ELSE Zero],
                            SumSeq([i \in 1..wpp |->
                                IF left + i - 1 <= right /\ ws[left + i - 1].nz
                                THEN ws[left + i - 1].fp ELSE 0])),
          written |-> {s - left : s \in {t \in left..right : ws[t].nz}}]

\* One iteration of the dstIdx loop of calculateWeights.
NestedRow(srcSize, dstSize, R, dstIdx) ==
    FillRow(WeightsPerPixel(srcSize, dstSize, R),
            Left(srcSize, dstSize, R, dstIdx),
            Right(srcSize, dstSize, R, dstIdx),
            [s \in Left(srcSize, dstSize, R, dstIdx)..Right(srcSize, dstSize, R, dstIdx)
                |-> RawWeight(srcSize, dstSize, R, dstIdx, s)])

\* The first row whose loop panics.
FirstPanic(rows) ==
    CHOOSE d \in 1..Len(rows) :
        rows[d].panic /\ \A e \in 1..(d - 1) : ~rows[e].panic

\* What becomes of calculateWeights when its loop would produce rows: it
\* returns them, or it panics in the first row that indexes past its slots
\* (rows then holds what was computed up to there).
TableOf(rows) ==
    IF \E d \in 1..Len(rows) : rows[d].panic
    THEN [kind |-> "panic", rows |-> SubSeq(rows, 1, FirstPanic(rows))]
    ELSE [kind |-> "table", rows |-> rows]

\* calculateWeights(srcSize, dstSize, filter) with a Lanczos filter of
\* radius R: no table for a non-positive size, a run-time panic when some
\* row indexes past its slots, and the dstSize rows otherwise.
calculateWeights(srcSize, dstSize, R) ==
    IF srcSize <= 0 \/ dstSize <= 0
    THEN [kind |-> "nil", rows |-> <<>>]
    ELSE TableOf([d \in 1..dstSize |-> NestedRow(srcSize, dstSize, R, d - 1)])

(* ------------------- calculateWeights (flat engine) -------------------- *)

\* weights := make([]float64, dstSize * weightsPerPixel)
FlatAlloc(dstSize, wpp) == [j \in 1..(dstSize * wpp) |-> Zero]

\* weightIdx for source index srcIdx of destination dstIdx: it starts at
\* dstIdx * weightsPerPixel and grows by one per source index.
FlatSlot(wpp, dstIdx, left, srcIdx) == dstIdx * wpp + (srcIdx - left)

\* The slots "weights[weightIdx] = weight" stores to: those of the source
\* indices with a non-zero weight.
FlatStored(wpp, dstIdx, left, right, ws) ==
    {FlatSlot(wpp, dstIdx, left, s) : s \in {t \in left..right : ws[t].nz}}

\* The array after the srcIdx loop (slot k of the code is arr[k + 1]).
FlatStore(arr, wpp, dstIdx, left, right, ws) ==
    [j \in 1..Len(arr) |->
        IF /\ (j - 1) - dstIdx * wpp + left \in left..right
           /\ ws[(j - 1) - dstIdx * wpp + left].nz
        THEN ws[(j - 1) - dstIdx * wpp + left] ELSE arr[j]]

\* The slots "weights[weightIdx] /= weightSum" divides: one per source
\* index of the range, when weightSum > 0.
FlatDivided(wpp, dstIdx, left, right, weightSum) ==
    IF weightSum > 0
    THEN {FlatSlot(wpp, dstIdx, left, s) : s \in left..right} ELSE {}

\* The array after the normalization loop.
FlatDivide(arr, wpp, dstIdx, left, right, weightSum) ==
    IF weightSum > 0
    THEN [j \in 1..Len(arr) |->
             IF (j - 1) - dstIdx * wpp + left \in left..right
             THEN [nz |-> arr[j].nz, fp |-> RoundDiv(arr[j].fp * Q, weightSum)]
             ELSE arr[j]]
    ELSE arr

\* The body of the dstIdx loop of the flat engine on the array arr: an
\* index past the end of the array, in either loop, is a run-time panic.
FlatFill(arr, wpp, dstIdx, left, right, ws, weightSum) ==
    [panic |-> \/ \E k \in FlatStored(wpp, dstIdx, left, right, ws) :
                     k >= Len(arr)
               \/ \E k \in FlatDivided(wpp, dstIdx, left, right, weightSum) :
                     k >= Len(arr),
     left |-> left, right |-> right,
     stored |-> FlatStored(wpp, dstIdx, left, right, ws),
     divided |-> FlatDivided(wpp, dstIdx, left, right, weightSum),
     arr |-> FlatDivide(FlatStore(arr, wpp, dstIdx, left, right, ws),
                        wpp, dstIdx, left, right, weightSum)]

\* weightSum: the sum of the non-zero weights of the range.
FlatSum(left, right, ws) ==
    SumSeq([k \in 1..(right - left + 1) |->
               IF ws[left + k - 1].nz THEN ws[left + k - 1].fp ELSE 0])

FlatWeighted(arr, wpp, dstIdx, left, right, ws) ==
    FlatFill(arr, wpp, dstIdx, left, right, ws, FlatSum(left, right, ws))

\* One iteration of the dstIdx loop of the flat engine.
FlatRow(arr, srcSize, dstSize, R, dstIdx) ==
    FlatWeighted(arr, WeightsPerPixel(srcSize, dstSize, R), dstIdx,
        Left(srcSize, dstSize, R, dstIdx), Right(srcSize, dstSize, R, dstIdx),
        [s \in Left(srcSize, dstSize, R, dstIdx)..Right(srcSize, dstSize, R, dstIdx)
            |-> RawWeight(srcSize, dstSize, R, dstIdx, s)])

(* ------------------------------ rasters -------------------------------- *)

\* A raster is an *image.NRGBA: w, h and 8-bit non-premultiplied pixels
\* <<R, G, B, A>> at <<x, y>>, 0 <= x < w, 0 <= y < h.
Coords(w, h) == (0..(w - 1)) \X (0..(h - 1))

\* image.NewNRGBA(image.Rect(0, 0, w, h)): all pixels zero.
NewNRGBA(w, h) == [w |-> w, h |-> h, pix |-> [c \in Coords(w, h) |-> <<0, 0, 0, 0>>]]

\* floor(a * b / c) for 0 <= a, b <= 65535 and c > 0, without leaving the
\* 32 bits the checker computes in (the code multiplies in uint32).
MulDiv(a, b, c) ==
    LET bh == b \div 256
        bl == b % 256
    IN ((a * bh) \div c) * 256 + ((((a * bh) % c) * 256 + a * bl) \div c)

\* color.NRGBA.RGBA(): 16-bit alpha-premultiplied channels of a pixel.
RGBA(p) == << (p[1] * 257 * p[4]) \div 255, (p[2] * 257 * p[4]) \div 255,
              (p[3] * 257 * p[4]) \div 255, p[4] * 257 >>

\* (*image.NRGBA).Set(x, y, color.NRGBA64{...}): color.NRGBAModel converts
\* the 16-bit colour c = <<R, G, B, A>> to the stored 8-bit pixel.
SetNRGBA64(c) ==
    LET a == c[4]
        pre(v) == MulDiv(v, a, 65535)
        un(v) == MulDiv(pre(v), 65535, a) \div 256
    IN IF a = 65535 THEN << pre(c[1]) \div 256, pre(c[2]) \div 256,
                            pre(c[3]) \div 256, 255 >>
       ELSE IF a = 0 THEN << 0, 0, 0, 0 >>
       ELSE << un(c[1]) % 256, un(c[2]) % 256, un(c[3]) % 256, a \div 256 >>

\* src.At(x, y).RGBA(): the zero colour outside the raster's bounds.
At(r, x, y) == IF <<x, y>> \in DOMAIN r.pix THEN RGBA(r.pix[<<x, y>>])
                                             ELSE <<0, 0, 0, 0>>

\* draw.Draw(dst, dst.Bounds(), src, srcBounds.Min, draw.Src) from an
\* *image.NRGBA of the same size: the pixel bytes are copied.
DrawCopy(dst, src) == [dst EXCEPT !.pix = [c \in DOMAIN dst.pix |-> src.pix[c]]]

(* --------------------------- the two passes ---------------------------- *)

HorizontalRadius == 3     \* filters.NewLanczos(3) in resizeHorizontal
VerticalRadius == 3       \* filters.NewLanczos(3) in resizeVertical

\* The range each pass computes again for a destination index.
PassLeft(srcLen, dstLen, R, d) ==
    LET l == TruncDiv(CenterN(srcLen, dstLen, d) - SupportN(srcLen, dstLen, R),
                      Den(dstLen))
    IN IF l < 0 THEN 0 ELSE l

PassRight(srcLen, dstLen, R, d) ==
    LET r == TruncDiv(CenterN(srcLen, dstLen, d) + SupportN(srcLen, dstLen, R),
                      Den(dstLen))
    IN IF r >= srcLen THEN srcLen - 1 ELSE r

Min(a, b) == IF a < b THEN a ELSE b

\* Number of iterations of "for s := left; s <= right && weightIdx <
\* len(pixelWeights); s++".
Taps(pixelWeights, left, right) == Min(right - left + 1, Len(pixelWeights))

\* What the loop consumes for one destination index: the range [left,
\* right] it computed, and for each iteration the pair <<weightIdx, srcIdx>>
\* of the weight it took and the source index it took it for.
PassTaps(pixelWeights, left, right) ==
    [left |-> left, right |-> right,
     pairs |-> [k \in 1..Taps(pixelWeights, left, right) |->
                   << k - 1, left + k - 1 >>]]

\* The source indices whose colour the loop reads (weight != 0).
PassReads(pixelWeights, left, right) ==
    {left + k - 1 : k \in {i \in 1..Taps(pixelWeights, left, right) : pixelWeights[i].nz}}

\* The four float64 sums r, g, b, a of one destination pixel, in fixed
\* point; line[s] is the colour of the source pixel at index s.
Accumulate(pixelWeights, left, right, line) ==
    [ch \in 1..4 |->
        SumSeq([k \in 1..Taps(pixelWeights, left, right) |->
                  IF pixelWeights[k].nz
                  THEN line[left + k - 1][ch] * pixelWeights[k].fp ELSE 0])]

\* Mutant: only the upper clamp.
ClampUpperOnly(v) == IF v > 65535 * Q THEN 65535 * Q ELSE v

\* "if r < 0 { r = 0 } else if r > 65535 { r = 65535 }"
Clamp(v) == IF v < 0 THEN 0 ELSE IF v > 65535 * Q THEN 65535 * Q ELSE v

\* uint16(r): the integer part, kept to 16 bits.
Uint16(v) == TruncDiv(v, Q) % 65536

\* The colour handed to dst.Set for the sums.
Narrow(sums) == [ch \in 1..4 |-> Uint16(Clamp(sums[ch]))]

NoTable == [kind |-> "none", rows |-> <<>>]
NoFilter == 0     \* the copy branch creates no filter
Nil == 0          \* the nil *image.NRGBA; rasters live in the heap at 1, 2, ...

\* dst := image.NewNRGBA(...) in heap hp: the raster gets the next address.
Alloc(hp, w, h) == Append(hp, NewNRGBA(w, h))

\* What a pass hands back when it returns before its loops: filter is the
\* radius of the filter it created (NoFilter for none), writes the
\* coordinates of dst it has written, in order.
Early(hp, err, dst, copy, table, srcLen, dstLen, filter, writes) ==
    [heap |-> hp, err |-> err, dst |-> dst, copy |-> copy, table |-> table,
     srcLen |-> srcLen, dstLen |-> dstLen, sums |-> <<>>, set |-> <<>>,
     reads |-> <<>>, filter |-> filter, writes |-> writes, taps |-> <<>>]

\* The coordinates draw.Draw writes in a w x h raster: row after row.
DrawOrder(w, h) == [i \in 1..(w * h) |-> << (i - 1) % w, (i - 1) \div w >>]

\* draw.Draw into the raster just allocated (the last of hp1), returned.
CopyInto(hp1, src, srcLen, dstLen) ==
    Early([hp1 EXCEPT ![Len(hp1)] = DrawCopy(hp1[Len(hp1)], hp1[src])], "",
          Len(hp1), TRUE, NoTable, srcLen, dstLen, NoFilter,
          DrawOrder(hp1[Len(hp1)].w, hp1[Len(hp1)].h))

\* Mutant: "no resize needed" hands the source itself back.
CopyBranchAliases(hp, src, w, h, srcLen, dstLen) ==
    Early(hp, "", src, TRUE, NoTable, srcLen, dstLen, NoFilter, <<>>)

\* The copy branch of a pass: a new raster of the source's size (dstLen
\* along the pass's axis, which equals the source's), drawn from the source.
CopyBranch(hp, src, w, h, srcLen, dstLen) ==
    CopyInto(Alloc(hp, w, h), src, srcLen, dstLen)

\* Mutant: the bounds of the two loops are exchanged.
LoopOrderSwapped(axis, w, h) ==
    [i \in 1..(w * h) |->
        IF axis = "H" THEN << (i - 1) % h, (i - 1) \div h >>
                      ELSE << (i - 1) \div w, (i - 1) % w >>]

\* The coordinates the two nested loops of a pass hand to dst.Set, in
\* order, for a destination of w x h: "for y < srcHeight { for dstX < width"
\* (axis "H") and "for x < srcWidth { for dstY < height" (axis "V").
LoopOrder(axis, w, h) ==
    [i \in 1..(w * h) |->
        IF axis = "H" THEN << (i - 1) % w, (i - 1) \div w >>
                      ELSE << (i - 1) \div h, (i - 1) % h >>]

\* The record of one pass's loops: sums are the float64 sums of each
\* destination pixel, set the colours handed to dst.Set, writes the
\* coordinates dst.Set was called with (a Set outside the raster's bounds
\* changes nothing), taps the source indices each destination index has
\* consumed, in order.
Filtered(hp, dst, weights, srcLen, dstLen, R, sums, set, reads, writes, taps) ==
    [heap |-> [hp EXCEPT ![dst].pix =
                  [c \in DOMAIN hp[dst].pix |->
                      IF \E i \in 1..Len(writes) : writes[i] = c
                      THEN SetNRGBA64(set[c]) ELSE hp[dst].pix[c]]],
     err |-> "", dst |-> dst, copy |-> FALSE, table |-> weights,
     srcLen |-> srcLen, dstLen |-> dstLen, sums |-> sums, set |-> set,
     reads |-> reads, filter |-> R, writes |-> writes, taps |-> taps]

Narrowed(hp, dst, weights, srcLen, dstLen, R, sums, reads, writes, taps) ==
    Filtered(hp, dst, weights, srcLen, dstLen, R, sums,
             [c \in DOMAIN hp[dst].pix |-> Narrow(sums[c])], reads, writes,
             taps)

\* The nested loops of a pass writing raster dst of heap hp from raster src:
\* axis "H" moves along x with y fixed, axis "V" moves along y with x fixed.
FilterLoops(hp, src, dst, axis, srcLen, dstLen, R, weights) ==
    Narrowed(hp, dst, weights, srcLen, dstLen, R,
        [c \in DOMAIN hp[dst].pix |->
            Accumulate(weights.rows[(IF axis = "H" THEN c[1] ELSE c[2]) + 1].row,
                PassLeft(srcLen, dstLen, R, IF axis = "H" THEN c[1] ELSE c[2]),
                PassRight(srcLen, dstLen, R, IF axis = "H" THEN c[1] ELSE c[2]),
                [s \in PassLeft(srcLen, dstLen, R, IF axis = "H" THEN c[1] ELSE c[2])
                       ..PassRight(srcLen, dstLen, R, IF axis = "H" THEN c[1] ELSE c[2])
                    |-> IF axis = "H" THEN At(hp[src], s, c[2])
                                      ELSE At(hp[src], c[1], s)])],
        [d \in 0..(dstLen - 1) |->
            PassReads(weights.rows[d + 1].row, PassLeft(srcLen, dstLen, R, d),
                      PassRight(srcLen, dstLen, R, d))],
        LoopOrder(axis, hp[dst].w, hp[dst].h),
        [d \in 0..(dstLen - 1) |->
            PassTaps(weights.rows[d + 1].row, PassLeft(srcLen, dstLen, R, d),
                     PassRight(srcLen, dstLen, R, d))])

\* A pass once dst is allocated (the last raster of hp1) and the table is
\* built: it gives up without a raster when there is no table.
WithWeights(hp1, src, axis, srcLen, dstLen, R, failure, weights) ==
    IF weights.kind = "nil"
    THEN Early(hp1, failure, Nil, FALSE, weights, srcLen, dstLen, R, <<>>)
    ELSE IF weights.kind = "panic"
    THEN Early(hp1, "panic", Nil, FALSE, weights, srcLen, dstLen, R, <<>>)
    ELSE FilterLoops(hp1, src, Len(hp1), axis, srcLen, dstLen, R, weights)

\* The filtering branch of a pass: allocate dst, build the table, filter.
FilterBranch(hp, src, w, h, axis, srcLen, dstLen, R, failure) ==
    WithWeights(Alloc(hp, w, h), src, axis, srcLen, dstLen, R, failure,
                calculateWeights(srcLen, dstLen, R))

\* Mutant: the vertical pass without its copy branch.
VerticalAlwaysFilters(hp, src, height) ==
    FilterBranch(hp, src, hp[src].w, height, "V", hp[src].h, height,
                 VerticalRadius,
                 "failed to calculate weights for vertical resize")

resizeVertical(hp, src, height) ==
    IF hp[src].h = height
    THEN CopyBranch(hp, src, hp[src].w, height, hp[src].h, height)
    ELSE FilterBranch(hp, src, hp[src].w, height, "V", hp[src].h, height,
                      VerticalRadius,
                      "failed to calculate weights for vertical resize")

resizeHorizontal(hp, src, width) ==
    IF hp[src].w = width
    THEN CopyBranch(hp, src, width, hp[src].h, hp[src].w, width)
    ELSE FilterBranch(hp, src, width, hp[src].h, "H", hp[src].w, width,
                      HorizontalRadius,
                      "failed to calculate weights for horizontal resize")

(* ------------------------------- state --------------------------------- *)

VARIABLES
    heap,     \* the rasters allocated so far; heap[1] is the caller's source
    src,      \* Resize's src: 1, or Nil
    width,    \* Resize's width
    height,   \* Resize's height
    pc,       \* where the call is: "call", "horizontal", "vertical", "done", "panic"
    route,    \* the branch Resize took: "none", "both", "horizontal", "vertical"
    img,      \* the raster the next pass reads
    ret,      \* what Resize returned: [img, err]
    log,      \* one record per pass run, in order
    src0,     \* the source raster as the caller passed it
    wpc,      \* calculateWeights called on its own: "start", "loop", "done"
    wSrc,     \* its srcSize
    wDst,     \* its dstSize
    wRad,     \* the radius of its Lanczos filter
    wIdx,     \* dstIdx
    wRows,    \* the rows built so far
    wRet,     \* what it returned: "none" yet, "nil", "table" or "panic"
    fpc,      \* the flat engine's calculateWeights: "start", "loop", "done"
    fSrc,     \* its srcSize
    fDst,     \* its dstSize
    fRad,     \* the radius of its Lanczos filter
    fIdx,     \* dstIdx
    fWeights, \* the flat array weights
    fLog,     \* per destination index built: range, slots stored and divided
    fRet,     \* what it returned: "none" yet, "nil", "table" or "panic"
    kpc,      \* a call of (*Lanczos).Kernel: "call", "done"
    kRad,     \* the filter's Radius
    kNum,     \* the argument value is kNum / kDen
    kDen,
    kOut      \* what Kernel returned for value and for -value, and sinc(0)

resizeVars == <<heap, src, width, height, pc, route, img, ret, log, src0>>
weightVars == <<wpc, wSrc, wDst, wRad, wIdx, wRows, wRet>>
flatVars == <<fpc, fSrc, fDst, fRad, fIdx, fWeights, fLog, fRet>>
kernelVars == <<kpc, kRad, kNum, kDen, kOut>>
vars == <<heap, src, width, height, pc, route, img, ret, log, src0,
          wpc, wSrc, wDst, wRad, wIdx, wRows, wRet,
          fpc, fSrc, fDst, fRad, fIdx, fWeights, fLog, fRet,
          kpc, kRad, kNum, kDen, kOut>>

Patterns == {"ramp", "checker", "translucent"}

\* The pixel a caller puts at (x, y): the ramp of TestResize, the
\* checkerboard of TestResizeQuality, and a pattern with every kind of alpha.
SrcPixel(pattern, x, y) ==
    IF pattern = "ramp" THEN << (x * 64) % 256, (y * 64) % 256, 128, 255 >>
    ELSE IF pattern = "checker"
    THEN (IF (x + y) % 2 = 0 THEN << 255, 255, 255, 255 >> ELSE << 0, 0, 0, 255 >>)
    ELSE << 255, 100, 0, ((x + 2 * y) % 3) * 127 >>

SrcRaster(w, h, pattern) ==
    [w |-> w, h |-> h,
     pix |-> [c \in Coords(w, h) |-> SrcPixel(pattern, c[1], c[2])]]

NoRet == [img |-> Nil, err |-> "pending"]

WeightsIdle ==
    /\ wpc = "idle" /\ wSrc = 0 /\ wDst = 0 /\ wRad = 0 /\ wIdx = 0
    /\ wRows = <<>> /\ wRet = "none"

FlatIdle ==
    /\ fpc = "idle" /\ fSrc = 0 /\ fDst = 0 /\ fRad = 0 /\ fIdx = 0
    /\ fWeights = <<>> /\ fLog = <<>> /\ fRet = "none"

NoOut == [pos |-> Zero, neg |-> Zero, sincZero |-> 0]

KernelIdle ==
    /\ kpc = "idle" /\ kRad = 0 /\ kNum = 0 /\ kDen = 1 /\ kOut = NoOut

ResizeIdle ==
    /\ heap = <<>> /\ src = Nil /\ width = 0 /\ height = 0 /\ pc = "idle"
    /\ route = "none" /\ img = Nil /\ ret = NoRet /\ log = <<>> /\ src0 = <<>>

\* A caller is about to call Resize(src, width, height).
Init ==
    /\ \/ /\ src = Nil /\ heap = <<>> /\ src0 = <<>>
       \/ /\ src = 1
          /\ \E w \in 0..MaxW, h \in 0..MaxH, p \in Patterns :
                heap = << SrcRaster(w, h, p) >>
          /\ src0 = heap
    /\ width \in -1..MaxW
    /\ height \in -1..MaxH
    /\ pc = "call" /\ route = "none" /\ img = Nil /\ ret = NoRet /\ log = <<>>
    /\ WeightsIdle /\ FlatIdle /\ KernelIdle

(* ------------------------------- Resize -------------------------------- *)

\* Mutant: the dimensions are checked before the source.
CheckDimensionsFirst(s, w, h) ==
    IF w <= 0 \/ h <= 0 THEN "invalid dimensions"
    ELSE IF s = Nil THEN "source image is nil"
    ELSE ""

\* The two checks at the top of Resize: the error it returns, "" for none.
ResizeCheck(s, w, h) ==
    IF s = Nil THEN "source image is nil"
    ELSE IF w <= 0 \/ h <= 0 THEN "invalid dimensions"
    ELSE ""

\* Mutant: a changed width alone decides, and the vertical pass is forgotten.
RouteWidthFirst(srcWidth, srcHeight, dstWidth, dstHeight) ==
    IF srcWidth # dstWidth THEN "horizontal" ELSE "vertical"

\* Mutant: two passes whenever the width changes.
RouteAlwaysTwoPass(srcWidth, srcHeight, dstWidth, dstHeight) ==
    IF srcWidth # dstWidth THEN "both" ELSE "vertical"

\* The branch Resize takes for a source of srcWidth x srcHeight.
ResizeRoute(srcWidth, srcHeight, dstWidth, dstHeight) ==
    IF srcWidth # dstWidth /\ srcHeight # dstHeight THEN "both"
    ELSE IF srcWidth # dstWidth THEN "horizontal"
    ELSE "vertical"

\* "image, err := resizeHorizontal(src, dstWidth); if err != nil { return
\* nil, err }" of the two-pass branch.
FirstPassFailed(r) == [img |-> Nil, err |-> r.err]

\* "return resizeHorizontal(...)" / "return resizeVertical(...)".
ReturnPass(r) == [img |-> r.dst, err |-> r.err]

LogEntry(pass, in, r) ==
    [pass |-> pass, in |-> in, out |-> r.dst, err |-> r.err, copy |-> r.copy,
     table |-> r.table, srcLen |-> r.srcLen, dstLen |-> r.dstLen,
     sums |-> r.sums, set |-> r.set, reads |-> r.reads,
     filter |-> r.filter, writes |-> r.writes, taps |-> r.taps]

\* Resize up to the choice of its branch.
ResizeEnter ==
    /\ pc = "call"
    /\ IF ResizeCheck(src, width, height) # ""
       THEN /\ ret' = [img |-> Nil, err |-> ResizeCheck(src, width, height)]
            /\ pc' = "done"
            /\ UNCHANGED <<route, img>>
       ELSE /\ route' = ResizeRoute(heap[src].w, heap[src].h, width, height)
            /\ pc' = IF route' = "vertical" THEN "vertical" ELSE "horizontal"
            /\ img' = src
            /\ ret' = ret
    /\ UNCHANGED <<heap, src, width, height, log, src0>>
    /\ UNCHANGED <<weightVars, flatVars, kernelVars>>

\* What Resize does with the result r of resizeHorizontal.
AfterHorizontal(r) ==
    /\ heap' = r.heap
    /\ log' = Append(log, LogEntry("horizontal", img, r))
    /\ IF r.err = "panic"
       THEN pc' = "panic" /\ UNCHANGED <<img, ret>>
       ELSE IF route = "both" /\ r.err # ""
       THEN pc' = "done" /\ ret' = FirstPassFailed(r) /\ img' = img
       ELSE IF route = "both"
       THEN pc' = "vertical" /\ img' = r.dst /\ ret' = ret
       ELSE pc' = "done" /\ ret' = ReturnPass(r) /\ img' = img

\* The call of resizeHorizontal, on the source.
Horizontal ==
    /\ pc = "horizontal"
    /\ AfterHorizontal(resizeHorizontal(heap, img, width))
    /\ UNCHANGED <<src, width, height, route, src0>>
    /\ UNCHANGED <<weightVars, flatVars, kernelVars>>

\* What Resize does with the result r of resizeVertical: it returns it.
AfterVertical(r) ==
    /\ heap' = r.heap
    /\ log' = Append(log, LogEntry("vertical", img, r))
    /\ IF r.err = "panic"
       THEN pc' = "panic" /\ ret' = ret
       ELSE pc' = "done" /\ ret' = ReturnPass(r)

\* The call of resizeVertical, on the source or on the horizontal pass's
\* result.
Vertical ==
    /\ pc = "vertical"
    /\ AfterVertical(resizeVertical(heap, img, height))
    /\ UNCHANGED <<src, width, height, route, img, src0>>
    /\ UNCHANGED <<weightVars, flatVars, kernelVars>>

Next == ResizeEnter \/ Horizontal \/ Vertical

Spec == Init /\ [][Next]_vars

\* Resize called on long rasters of one or two rows.
InitLine ==
    /\ src = 1
    /\ \E w \in 0..MaxLen, h \in 1..2 : heap = << SrcRaster(w, h, "checker") >>
    /\ src0 = heap
    /\ width \in 0..MaxLen
    /\ height \in 1..2
    /\ pc = "call" /\ route = "none" /\ img = Nil /\ ret = NoRet /\ log = <<>>
    /\ WeightsIdle /\ FlatIdle /\ KernelIdle

SpecLine == InitLine /\ [][Next]_vars

(* ---------------- calculateWeights called on its own ------------------- *)

Radii == {1, 2, 3}

\* A caller (the tests do) is about to call calculateWeights(srcSize,
\* dstSize, filters.NewLanczos(radius)).
InitW ==
    /\ ResizeIdle /\ FlatIdle /\ KernelIdle
    /\ wSrc \in -1..MaxLen
    /\ wDst \in -1..MaxLen
    /\ wRad \in Radii
    /\ wpc = "start" /\ wIdx = 0 /\ wRows = <<>> /\ wRet = "none"

\* The size check, and make([][]float64, dstSize).
CalcEnter ==
    /\ wpc = "start"
    /\ IF wSrc <= 0 \/ wDst <= 0
       THEN wpc' = "done" /\ wRet' = "nil"
       ELSE wpc' = "loop" /\ wRet' = wRet
    /\ UNCHANGED <<wSrc, wDst, wRad, wIdx, wRows>>
    /\ UNCHANGED <<resizeVars, flatVars, kernelVars>>

\* One iteration of "for dstIdx := 0; dstIdx < dstSize; dstIdx++".
CalcRow ==
    /\ wpc = "loop"
    /\ wIdx < wDst
    /\ wRows' = Append(wRows, NestedRow(wSrc, wDst, wRad, wIdx))
    /\ IF wRows'[Len(wRows')].panic
       THEN wpc' = "done" /\ wRet' = "panic" /\ wIdx' = wIdx
       ELSE wpc' = wpc /\ wRet' = wRet /\ wIdx' = wIdx + 1
    /\ UNCHANGED <<wSrc, wDst, wRad>>
    /\ UNCHANGED <<resizeVars, flatVars, kernelVars>>

\* "return weights" after the last row.
CalcReturn ==
    /\ wpc = "loop"
    /\ wIdx = wDst
    /\ wpc' = "done"
    /\ wRet' = "table"
    /\ UNCHANGED <<wSrc, wDst, wRad, wIdx, wRows>>
    /\ UNCHANGED <<resizeVars, flatVars, kernelVars>>

NextW == CalcEnter \/ CalcRow \/ CalcReturn

SpecW == InitW /\ [][NextW]_vars

(* --------- the flat engine's calculateWeights called on its own -------- *)

\* A caller is about to call the flat engine's calculateWeights(srcSize,
\* dstSize, filters.NewLanczos(radius)).
InitF ==
    /\ ResizeIdle /\ WeightsIdle /\ KernelIdle
    /\ fSrc \in -1..MaxLen
    /\ fDst \in -1..MaxLen
    /\ fRad \in Radii
    /\ fpc = "start" /\ fIdx = 0 /\ fWeights = <<>> /\ fLog = <<>>
    /\ fRet = "none"

\* The size check, and make([]float64, totalWeights).
FlatEnter ==
    /\ fpc = "start"
    /\ IF fSrc <= 0 \/ fDst <= 0
       THEN fpc' = "done" /\ fRet' = "nil" /\ fWeights' = fWeights
       ELSE /\ fpc' = "loop" /\ fRet' = fRet
            /\ fWeights' = FlatAlloc(fDst, WeightsPerPixel(fSrc, fDst, fRad))
    /\ UNCHANGED <<fSrc, fDst, fRad, fIdx, fLog>>
    /\ UNCHANGED <<resizeVars, weightVars, kernelVars>>

\* What the dstIdx loop does with the outcome r of one iteration.
AfterFlatRow(r) ==
    /\ fLog' = Append(fLog, [left |-> r.left, right |-> r.right,
                             stored |-> r.stored, divided |-> r.divided,
                             panic |-> r.panic])
    /\ IF r.panic
       THEN fpc' = "done" /\ fRet' = "panic" /\ fIdx' = fIdx
            /\ fWeights' = fWeights
       ELSE fpc' = fpc /\ fRet' = fRet /\ fIdx' = fIdx + 1
            /\ fWeights' = r.arr

\* One iteration of "for dstIdx := 0; dstIdx < dstSize; dstIdx++".
FlatRowStep ==
    /\ fpc = "loop"
    /\ fIdx < fDst
    /\ AfterFlatRow(FlatRow(fWeights, fSrc, fDst, fRad, fIdx))
    /\ UNCHANGED <<fSrc, fDst, fRad>>
    /\ UNCHANGED <<resizeVars, weightVars, kernelVars>>

\* "return weights" after the last destination index.
FlatReturn ==
    /\ fpc = "loop"
    /\ fIdx = fDst
    /\ fpc' = "done"
    /\ fRet' = "table"
    /\ UNCHANGED <<fSrc, fDst, fRad, fIdx, fWeights, fLog>>
    /\ UNCHANGED <<resizeVars, weightVars, kernelVars>>

NextF == FlatEnter \/ FlatRowStep \/ FlatReturn

SpecF == InitF /\ [][NextF]_vars

(* -------------------- Lanczos.Kernel called on its own ----------------- *)

\* A caller is about to call filters.NewLanczos(kRad).Kernel(kNum / kDen),
\* with an argument between -(kRad + 1) and kRad + 1.
InitK ==
    /\ ResizeIdle /\ WeightsIdle /\ FlatIdle
    /\ kRad \in Radii
    /\ kDen \in 1..MaxDen
    /\ kNum \in (-(kRad + 1) * kDen)..((kRad + 1) * kDen)
    /\ kpc = "call" /\ kOut = NoOut

\* Kernel(value), Kernel(-value) and sinc(0).
KernelCall ==
    /\ kpc = "call"
    /\ kOut' = [pos |-> Kernel(kRad, kNum, kDen),
                neg |-> Kernel(kRad, -kNum, kDen),
                sincZero |-> sinc(0, kDen)]
    /\ kpc' = "done"
    /\ UNCHANGED <<kRad, kNum, kDen>>
    /\ UNCHANGED <<resizeVars, weightVars, flatVars>>

NextK == KernelCall

SpecK == InitK /\ [][NextK]_vars

\* The stepwise build and the function the passes call agree.
CalcAgrees ==
    wpc = "done" =>
        /\ calculateWeights(wSrc, wDst, wRad).kind = wRet
        /\ wRet # "nil" => calculateWeights(wSrc, wDst, wRad).rows = wRows

TypeOK ==
    /\ pc \in {"idle", "call", "horizontal", "vertical", "done", "panic"}
    /\ wpc \in {"idle", "start", "loop", "done"}
    /\ fpc \in {"idle", "start", "loop", "done"}
    /\ kpc \in {"idle", "call", "done"}
    /\ src \in {Nil, 1}
    /\ route \in {"none", "both", "horizontal", "vertical"}

(* ============================== claims ================================= *)

\* The call has a source and targets that Resize accepts.
Accepted == src # Nil /\ width > 0 /\ height > 0

\* The log entries of passes that went through their loops.
FilteredPasses == {i \in 1..Len(log) : log[i].err = "" /\ ~log[i].copy}

Returned == pc = "done" /\ ret.err = ""

(* ---- C1 ---- *)
\* C1: for a source of width >= 1 and height >= 1 and targets >= 1, Resize
\* completes and returns a raster with no error: calculateWeights never
\* writes a weight at a slot >= int(2*support)+1 (which would panic), and no
\* pass reads a source index outside [0, srcLen-1].
C1_ResizeCompletes ==
    (Accepted /\ src0[1].w >= 1 /\ src0[1].h >= 1) =>
        /\ pc # "panic"
        /\ \A i \in 1..Len(log) :
              /\ log[i].table.kind # "panic"
              /\ \A d \in DOMAIN log[i].table.rows :
                    \A k \in log[i].table.rows[d].written :
                        k < WeightsPerPixel(log[i].srcLen, log[i].dstLen,
                                IF log[i].pass = "horizontal"
                                THEN HorizontalRadius ELSE VerticalRadius)
              /\ \A d \in DOMAIN log[i].reads :
                    log[i].reads[d] \subseteq 0..(log[i].srcLen - 1)
        /\ pc = "done" => ret.err = "" /\ ret.img # Nil

(* ---- C2 ---- *)
\* C2: a successful Resize(src, width, height) returns a raster of exactly
\* width x height in each of its three branches; a successful horizontal
\* pass returns width x (its input's height) and a successful vertical pass
\* (its input's width) x height.
C2_Dimensions ==
    /\ Returned =>
          heap[ret.img].w = width /\ heap[ret.img].h = height
    /\ \A i \in 1..Len(log) :
          log[i].err = "" =>
             IF log[i].pass = "horizontal"
             THEN /\ heap[log[i].out].w = width
                  /\ heap[log[i].out].h = heap[log[i].in].h
             ELSE /\ heap[log[i].out].w = heap[log[i].in].w
                  /\ heap[log[i].out].h = height

\* A two-pass resize has returned.
C2_Witness == Returned /\ Len(log) = 2 /\ FilteredPasses = {1, 2}

(* ---- C3 ---- *)
\* C3: Resize fails on a nil source, and on width <= 0 or height <= 0; the
\* nil check comes first; every failure returns the nil raster, and after a
\* failed horizontal pass of the two-pass branch no vertical pass is run.
C3_Failures ==
    pc = "done" =>
        /\ src = Nil => ret.err = "source image is nil"
        /\ (src # Nil /\ (width <= 0 \/ height <= 0)) =>
              ret.err = "invalid dimensions"
        /\ ret.err # "" => ret.img = Nil
        /\ (Len(log) >= 1 /\ log[1].err # "") => Len(log) = 1

\* The horizontal pass of a two-pass resize has failed.
C3_Witness ==
    /\ pc = "done" /\ Accepted
    /\ src0[1].w # width /\ src0[1].h # height
    /\ Len(log) = 1 /\ log[1].pass = "horizontal" /\ log[1].err # ""
    /\ ret.img = Nil

(* ---- C4 ---- *)
\* C4: the passes depend only on which dimensions differ: both differ, the
\* horizontal pass on the source and then the vertical pass on its result;
\* only the width differs, the horizontal pass alone; otherwise the vertical
\* pass alone.  No table is built for an axis whose length does not change.
C4_Routing ==
    /\ (Returned /\ src0[1].w # width /\ src0[1].h # height) =>
          /\ Len(log) = 2
          /\ log[1].pass = "horizontal" /\ log[1].in = src
          /\ log[2].pass = "vertical" /\ log[2].in = log[1].out
    /\ (Returned /\ src0[1].w # width /\ src0[1].h = height) =>
          /\ Len(log) = 1
          /\ log[1].pass = "horizontal" /\ log[1].in = src
    /\ (Returned /\ src0[1].w = width) =>
          /\ Len(log) = 1
          /\ log[1].pass = "vertical" /\ log[1].in = src
    /\ \A i \in 1..Len(log) :
          /\ (i = 1 /\ log[i].pass = "vertical") => src0[1].w = width
          /\ log[i].srcLen = log[i].dstLen => log[i].table.kind = "none"

\* A resize of the width alone has returned.
C4_Witness ==
    /\ Returned /\ src0[1].w # width /\ src0[1].h = height
    /\ Len(log) = 1 /\ log[1].table.kind = "table"

(* ---- C5 ---- *)
\* C5: Resize(src, src.width, src.height) returns a raster whose every
\* pixel equals the source's; it is the copy branch of the vertical pass: no
\* table is built and nothing is accumulated, clamped or narrowed.
C5_Identity ==
    (pc = "done" /\ Accepted /\ src0[1].w = width /\ src0[1].h = height) =>
        /\ ret.err = ""
        /\ heap[ret.img] = src0[1]
        /\ Len(log) = 1
        /\ log[1].pass = "vertical" /\ log[1].copy
        /\ log[1].table.kind = "none"
        /\ log[1].sums = <<>> /\ log[1].set = <<>>

\* A source with translucent pixels has been resized to its own size.
C5_Witness ==
    /\ pc = "done" /\ Accepted /\ src0[1].w = width /\ src0[1].h = height
    /\ width >= 2 /\ height >= 2
    /\ \E c \in DOMAIN src0[1].pix : src0[1].pix[c][4] \notin {0, 255}
    /\ heap[ret.img].pix = src0[1].pix

(* ---- C6 ---- *)
\* The sum of the filter's weights over the range of row r, before the
\* normalization.
UnnormalizedSum(r, dstIdx) ==
    SumSeq([k \in 1..(r.right - r.left + 1) |->
               RawWeight(wSrc, wDst, wRad, dstIdx, r.left + k - 1).fp])

StoredSum(r) == SumSeq([i \in 1..Len(r.row) |-> r.row[i].fp])

\* C6: in a table calculateWeights returns, the weights stored for each
\* destination index sum to 1.0 within 1e-2 whenever the un-normalized sum
\* is positive, and the slots beyond the contributing range are zero.
C6_Normalized ==
    wRet = "table" =>
        \A d \in 1..Len(wRows) :
            /\ UnnormalizedSum(wRows[d], d - 1) > 0 =>
                  Abs(StoredSum(wRows[d]) - Q) <= Q \div 100
            /\ \A i \in 1..Len(wRows[d].row) :
                  i > wRows[d].right - wRows[d].left + 1 =>
                     wRows[d].row[i] = Zero

\* A downsampling table has been returned in which a row has a negative
\* side-lobe weight and padding slots.
C6_Witness ==
    /\ wRet = "table" /\ wSrc > wDst /\ wDst >= 2
    /\ \E d \in 1..Len(wRows) :
          /\ \E i \in 1..Len(wRows[d].row) : wRows[d].row[i].fp < 0
          /\ Len(wRows[d].row) > wRows[d].right - wRows[d].left + 1
          /\ UnnormalizedSum(wRows[d], d - 1) > 0

(* ---- C7 ---- *)
\* C7: for every destination index d of a table a pass asked for,
\* 0 <= left <= right <= srcSize-1, and every source index that receives a
\* weight for d, or that the pass reads for d, lies in [left, right].
C7_Locality ==
    \A i \in 1..Len(log) :
        \A d \in DOMAIN log[i].table.rows :
            /\ 0 <= log[i].table.rows[d].left
            /\ log[i].table.rows[d].left <= log[i].table.rows[d].right
            /\ log[i].table.rows[d].right <= log[i].srcLen - 1
            /\ \A k \in log[i].table.rows[d].written :
                  log[i].table.rows[d].left + k <= log[i].table.rows[d].right
            /\ (d - 1) \in DOMAIN log[i].reads =>
                  log[i].reads[d - 1] \subseteq
                     log[i].table.rows[d].left..log[i].table.rows[d].right

\* A pass has read its sources for a row clipped at the left end, for a
\* row clipped at the right end and for a row clipped at neither.
C7_Witness ==
    \E i \in FilteredPasses :
        /\ \E d \in DOMAIN log[i].table.rows :
              /\ log[i].table.rows[d].left = 0
              /\ log[i].table.rows[d].right < log[i].srcLen - 1
              /\ Cardinality(log[i].reads[d - 1]) >= 2
        /\ \E d \in DOMAIN log[i].table.rows :
              /\ log[i].table.rows[d].left > 0
              /\ log[i].table.rows[d].right = log[i].srcLen - 1
              /\ Cardinality(log[i].reads[d - 1]) >= 2
        /\ \E d \in DOMAIN log[i].table.rows :
              /\ log[i].table.rows[d].left > 0
              /\ log[i].table.rows[d].right < log[i].srcLen - 1
              /\ Cardinality(log[i].reads[d - 1]) >= 2

(* ---- C8 ---- *)
\* The 16-bit value of a float64 sum v that saturates instead of wrapping.
Saturated(v) == IF v < 0 THEN 0 ELSE IF v > 65535 * Q THEN 65535 ELSE v \div Q

\* A sum of pass i lies outside [0, 65535].
Overshoots(i) ==
    \E c \in DOMAIN log[i].sums : \E ch \in 1..4 :
        log[i].sums[c][ch] < 0 \/ log[i].sums[c][ch] > 65535 * Q

\* C8: in both passes each of the four channel sums is clamped to
\* [0, 65535] before it is narrowed to 16 bits: the narrowing never wraps,
\* and every channel written lies in [0, 65535].
C8_ChannelBounds ==
    \A i \in FilteredPasses :
        \A c \in DOMAIN log[i].sums : \A ch \in 1..4 :
            /\ log[i].set[c][ch] = Saturated(log[i].sums[c][ch])
            /\ log[i].set[c][ch] \in 0..65535
            /\ heap[log[i].out].pix[c][ch] \in 0..255

\* Both passes of one resize have clamped a sum that left [0, 65535].
C8_Witness ==
    /\ Returned /\ FilteredPasses = {1, 2}
    /\ Overshoots(1) /\ Overshoots(2)

(* ---- C9 ---- *)
\* C9: calculateWeights returns no table exactly when srcSize <= 0 or
\* dstSize <= 0, and a table of exactly dstSize rows in every other case.
C9_TableOrNil ==
    wpc = "done" =>
        /\ wRet = "nil" <=> (wSrc <= 0 \/ wDst <= 0)
        /\ wRet # "nil" => (wRet = "table" /\ Len(wRows) = wDst)

\* The part of C9 about the passes, which holds: a pass that gets no table
\* returns an error and no raster, and Resize on a source of width or
\* height 0 fails.
NoTableNoRaster ==
    /\ \A i \in 1..Len(log) :
          log[i].table.kind = "nil" => (log[i].err # "" /\ log[i].out = Nil)
    /\ (pc = "done" /\ Accepted /\ (src0[1].w = 0 \/ src0[1].h = 0)) =>
          (ret.err # "" /\ ret.img = Nil)

(* ---- C10 ---- *)
\* C10: no call of Resize changes the pixels or the size of the source; the
\* raster a successful call returns was allocated in that call, and is
\* neither the source nor the result of the horizontal pass.
C10_Frame ==
    /\ src # Nil => heap[src] = src0[1]
    /\ Returned =>
          /\ ret.img \in (Len(src0) + 1)..Len(heap)
          /\ ret.img # src
          /\ Len(log) = 2 => ret.img # log[1].out

\* A two-pass resize and a copy have returned their rasters.
C10_Witness ==
    /\ Returned /\ ret.img # Nil
    /\ Len(log) = 2 /\ log[1].out # Nil /\ log[2].copy = FALSE

(* ---- C11 ---- *)
\* The number of times pass i has handed coordinate c to a write of its
\* destination.
WriteCount(i, c) ==
    Cardinality({j \in 1..Len(log[i].writes) : log[i].writes[j] = c})

\* C11: in the raster Resize returns, and in the raster of every pass that
\* succeeds, every coordinate (x, y) with 0 <= x < width, 0 <= y < height
\* has been written exactly once by the pass that produced the raster, and
\* the pass has written nowhere else.
C11_WrittenOnce ==
    /\ Returned =>
          /\ log[Len(log)].out = ret.img
          /\ \A c \in Coords(width, height) : WriteCount(Len(log), c) = 1
    /\ \A i \in 1..Len(log) :
          log[i].err = "" =>
             /\ \A c \in DOMAIN heap[log[i].out].pix : WriteCount(i, c) = 1
             /\ \A j \in 1..Len(log[i].writes) :
                   log[i].writes[j] \in DOMAIN heap[log[i].out].pix

\* Two filtering passes have written a raster that is not square.
C11_Witness ==
    /\ Returned /\ FilteredPasses = {1, 2}
    /\ width >= 2 /\ height >= 2 /\ width # height
    /\ Len(log[2].writes) = width * height

(* ---- C12 ---- *)
\* C12: both passes of Resize build their weight table with a Lanczos
\* kernel of radius 2, and within one call the two passes use the same
\* radius.
C12_Lanczos2 ==
    /\ \A i \in 1..Len(log) :
          log[i].filter # NoFilter => log[i].filter = 2
    /\ (Len(log) = 2 /\ log[1].filter # NoFilter /\ log[2].filter # NoFilter) =>
          log[1].filter = log[2].filter

\* The half of C12 that holds: the two passes of one call use one radius.
SameRadius ==
    (Len(log) = 2 /\ log[1].filter # NoFilter /\ log[2].filter # NoFilter) =>
        log[1].filter = log[2].filter

(* ---- C13 ---- *)
\* v clamped into [lo, hi].
ClampInto(v, lo, hi) == IF v < lo THEN lo ELSE IF v > hi THEN hi ELSE v

\* The specified center - support and center + support for destination
\* index d, as numerators over 2*dstSize: center = (d + 0.5) * scale - 0.5,
\* scale = srcSize/dstSize, support = radius when scale <= 1 and
\* radius * scale otherwise.
SpecifiedLow(srcSize, dstSize, R, d) ==
    ((2 * d + 1) * srcSize - dstSize)
      - (IF srcSize <= dstSize THEN 2 * dstSize * R ELSE 2 * srcSize * R)

SpecifiedHigh(srcSize, dstSize, R, d) ==
    ((2 * d + 1) * srcSize - dstSize)
      + (IF srcSize <= dstSize THEN 2 * dstSize * R ELSE 2 * srcSize * R)

\* The specified bounds: floor(center - support) and floor(center +
\* support), each clamped into [0, srcSize-1] (\div rounds down).
SpecifiedLeft(srcSize, dstSize, R, d) ==
    ClampInto(SpecifiedLow(srcSize, dstSize, R, d) \div (2 * dstSize),
              0, srcSize - 1)

SpecifiedRight(srcSize, dstSize, R, d) ==
    ClampInto(SpecifiedHigh(srcSize, dstSize, R, d) \div (2 * dstSize),
              0, srcSize - 1)

\* C13: for every srcSize >= 1, dstSize >= 1, radius >= 1 and destination
\* index d, the bounds calculateWeights computes by truncating toward zero
\* and clamping left up to 0 and right down to srcSize-1 equal the
\* specified bounds floor(center - support) and floor(center + support),
\* each clamped into [0, srcSize-1].
C13_TruncIsFloor ==
    \A d \in 1..Len(wRows) :
        /\ wRows[d].left = SpecifiedLeft(wSrc, wDst, wRad, d - 1)
        /\ wRows[d].right = SpecifiedRight(wSrc, wDst, wRad, d - 1)

\* A table has been built in which, for some row, center - support is
\* negative and not an integer (truncation and floor differ), and for some
\* row center + support lies beyond srcSize-1.
C13_Witness ==
    /\ wRet = "table"
    /\ \E d \in 1..Len(wRows) :
          /\ SpecifiedLow(wSrc, wDst, wRad, d - 1) < 0
          /\ SpecifiedLow(wSrc, wDst, wRad, d - 1) % (2 * wDst) # 0
          /\ TruncDiv(SpecifiedLow(wSrc, wDst, wRad, d - 1), 2 * wDst)
                # SpecifiedLow(wSrc, wDst, wRad, d - 1) \div (2 * wDst)
          /\ wRows[d].left = 0
    /\ \E d \in 1..Len(wRows) :
          /\ SpecifiedHigh(wSrc, wDst, wRad, d - 1) \div (2 * wDst) > wSrc - 1
          /\ wRows[d].right = wSrc - 1
    /\ \E d \in 1..Len(wRows) :
          /\ wRows[d].left > 0 /\ wRows[d].right < wSrc - 1

(* ---- C14 ---- *)
\* C14: in each pass, for every destination index d the range [left,
\* right] the pass computes again equals the range calculateWeights used
\* for d, and the k-th weight stored for d is taken for source index
\* left + k, for every k from 0 to right - left: the loop guard
\* "weightIdx < len(pixelWeights)" never ends the loop before source index
\* right has been consumed.
C14_WholeRange ==
    \A i \in FilteredPasses :
        \A d \in DOMAIN log[i].taps :
            /\ log[i].taps[d].left = log[i].table.rows[d + 1].left
            /\ log[i].taps[d].right = log[i].table.rows[d + 1].right
            /\ log[i].taps[d].pairs =
                  [k \in 1..(log[i].taps[d].right - log[i].taps[d].left + 1) |->
                      << k - 1, log[i].taps[d].left + k - 1 >>]

\* The parts of C14 that hold: the pass computes the range of the table
\* again, pairs the k-th weight with source index left + k as far as the
\* loop runs, and every source index the guard cuts off had weight zero in
\* calculateWeights.
NoContributorDropped ==
    \A i \in FilteredPasses :
        \A d \in DOMAIN log[i].taps :
            /\ log[i].taps[d].left = log[i].table.rows[d + 1].left
            /\ log[i].taps[d].right = log[i].table.rows[d + 1].right
            /\ \A k \in 1..Len(log[i].taps[d].pairs) :
                  log[i].taps[d].pairs[k]
                     = << k - 1, log[i].taps[d].left + k - 1 >>
            /\ \A k \in log[i].table.rows[d + 1].written :
                  k < Len(log[i].taps[d].pairs)

(* ---- C15 ---- *)
\* The kernel argument of source index s for destination index d (s -
\* center when scale <= 1, (s - center)/scale when scale > 1) has absolute
\* value strictly less than 1.
ArgumentBelowOne(srcSize, dstSize, d, s) ==
    Abs(2 * dstSize * s - ((2 * d + 1) * srcSize - dstSize))
        < (IF srcSize <= dstSize THEN 2 * dstSize ELSE 2 * srcSize)

\* C15: for every srcSize >= 1, dstSize >= 1 and radius >= 1, no
\* destination index has an all-zero row: for every d the clipped range
\* [left, right] is non-empty and holds a source index whose kernel
\* argument is strictly below 1 in absolute value, and whose weight, from
\* the filter and as stored, is strictly positive.
C15_NoZeroRow ==
    \A d \in 1..Len(wRows) :
        /\ wRows[d].left <= wRows[d].right
        /\ \E s \in wRows[d].left..wRows[d].right :
              /\ ArgumentBelowOne(wSrc, wDst, d - 1, s)
              /\ RawWeight(wSrc, wDst, wRad, d - 1, s).fp > 0
              /\ ~wRows[d].panic =>
                    wRows[d].row[s - wRows[d].left + 1].fp > 0

\* A table of the narrowest filter has been built, while upsampling, in
\* which a row has a single source index with a positive weight.
C15_Witness ==
    /\ wRet = "table" /\ wRad = 1 /\ wSrc < wDst /\ wSrc >= 2
    /\ \E d \in 1..Len(wRows) :
          Cardinality({i \in 1..Len(wRows[d].row) : wRows[d].row[i].fp > 0}) = 1

(* ---- C16 ---- *)
\* The slots of destination index d in a flat array of wpp slots per
\* destination.
SlotsOf(wpp, d) == (d * wpp)..(d * wpp + wpp - 1)

\* The weight of source index s for destination index d of the flat
\* engine's call, divided by the sum of the weights of d's range when that
\* sum is positive.
NormalizedWeight(d, s, weightSum) ==
    IF ~RawWeight(fSrc, fDst, fRad, d, s).nz THEN Zero
    ELSE IF weightSum > 0
    THEN [nz |-> TRUE,
          fp |-> RoundDiv(RawWeight(fSrc, fDst, fRad, d, s).fp * Q, weightSum)]
    ELSE RawWeight(fSrc, fDst, fRad, d, s)

RangeSum(d, left, right) ==
    SumSeq([k \in 1..(right - left + 1) |->
               RawWeight(fSrc, fDst, fRad, d, left + k - 1).fp])

\* C16: in the flat engine, with wpp = int(2*support)+1, building
\* destination index d stores to and divides only the slots d*wpp ..
\* d*wpp + wpp - 1: never a slot of destination d+1, never an index past
\* the end of the array; and after the build slot d*wpp + k holds the
\* normalized weight of source index left(d) + k for every k <= right(d) -
\* left(d).
C16_SlotDiscipline ==
    /\ fRet # "panic"
    /\ \A d \in 1..Len(fLog) :
          /\ fLog[d].stored \subseteq
                SlotsOf(WeightsPerPixel(fSrc, fDst, fRad), d - 1)
          /\ fLog[d].divided \subseteq
                SlotsOf(WeightsPerPixel(fSrc, fDst, fRad), d - 1)
    /\ fRet = "table" =>
          \A d \in 1..Len(fLog) :
              \A k \in 0..(fLog[d].right - fLog[d].left) :
                  /\ k < WeightsPerPixel(fSrc, fDst, fRad)
                  /\ fWeights[(d - 1) * WeightsPerPixel(fSrc, fDst, fRad) + k + 1]
                       = NormalizedWeight(d - 1, fLog[d].left + k,
                            RangeSum(d - 1, fLog[d].left, fLog[d].right))

\* What holds of the flat engine's slots: a destination index stores and
\* divides from its own first slot on, at most one slot into the next
\* destination's.
AtMostOneSlotOver ==
    \A d \in 1..Len(fLog) :
        \A k \in fLog[d].stored \cup fLog[d].divided :
            /\ k >= (d - 1) * WeightsPerPixel(fSrc, fDst, fRad)
            /\ k <= d * WeightsPerPixel(fSrc, fDst, fRad)

(* ---- C17 ---- *)
\* The flat engine has built a table exactly when the nested engine's call
\* (outcome nested) has.
BuiltAlike(nested) == fRet = "table" <=> nested.kind = "table"

\* Where both have built a table, slot d*wpp + k of the flat array holds
\* the weight of slot k of the nested table's row d.
SameWeights(nested, wpp) ==
    (fRet = "table" /\ nested.kind = "table") =>
        \A d \in 1..Len(nested.rows) :
            SubSeq(fWeights, (d - 1) * wpp + 1, d * wpp) = nested.rows[d].row

\* C17: for the same radius and the same srcSize >= 1 and dstSize >= 1 one
\* engine builds a table exactly when the other does, and the two tables
\* hold the same weights: flat[d*wpp + k] = nested[d][k] for every
\* d < dstSize and k < wpp.
C17_SameTables ==
    (fpc = "done" /\ fSrc >= 1 /\ fDst >= 1) =>
        /\ BuiltAlike(calculateWeights(fSrc, fDst, fRad))
        /\ SameWeights(calculateWeights(fSrc, fDst, fRad),
                       WeightsPerPixel(fSrc, fDst, fRad))

\* The part of C17 that holds: where both engines build a table, the
\* tables hold the same weights.
SameWhereBothBuild ==
    fpc = "done" =>
        SameWeights(calculateWeights(fSrc, fDst, fRad),
                    WeightsPerPixel(fSrc, fDst, fRad))

(* ---- C18 ---- *)
\* C18: for every radius R >= 1 and every x, Lanczos{R}.Kernel(x) is 0 when
\* |x| >= R, is 1 when x = 0, and equals Kernel(-x); sinc(0) is 1.
C18_Kernel ==
    kpc = "done" =>
        /\ Abs(kNum) >= kRad * kDen => (kOut.pos.fp = 0 /\ ~kOut.pos.nz)
        /\ kNum = 0 => kOut.pos.fp = Q
        /\ kOut.pos = kOut.neg
        /\ kOut.sincZero = Q

\* Kernel has been called in a negative side lobe, on a negative argument
\* strictly inside the radius.
C18_Witness ==
    /\ kpc = "done" /\ kNum < 0 /\ Abs(kNum) < kRad * kDen
    /\ kOut.pos.fp < 0 /\ kOut.neg.fp < 0

====
